---- MODULE Spec2Model ----
(***************************************************************************)
(* Content resolution and navigation synthesis of the docs site.           *)
(*                                                                         *)
(* Strings are sequences of one-character strings, so that the regular     *)
(* expressions, prefix stripping, splitting and lexical comparison of the  *)
(* source act on characters as they do in the program.                     *)
(***************************************************************************)
EXTENDS Integers, Sequences, FiniteSets, TLC

VARIABLES contentModules, op, arg, ret

\* the docs page ([...slug].vue) and the useAsync it holds: the route path,
\* the refs data, error and status, the canceled flag, the keys of the
\* shared asyncPromises map and the requests whose promise chain has not
\* run to its end; held tells that the debounced execute has kept a call
\* back for later
VARIABLES currentPath, data, error, status, canceled, asyncPromises, requests, held

\* navigation.value of the useNavigation composable that a layout holds
VARIABLE navigation

asyncVars == <<currentPath, data, error, status, canceled, asyncPromises, requests, held>>

vars == <<contentModules, op, arg, ret, navigation, asyncVars>>

(***************************************************************************)
(* Bounds                                                                  *)
(***************************************************************************)
\* largest number of documents held by a Content Store of the model
MaxStore == 2

(***************************************************************************)
(* Characters and strings                                                  *)
(***************************************************************************)
\* the characters of the model, in ASCII order
Alphabet ==
  << " ", "\"", "#", "'", "(", "-", ".", "/", "0", "1", "2", "3", "4", "5", "6", "7", "8", "9", ":",
     "A", "B", "C", "D", "E", "I", "L", "M", "N", "O", "R", "S", "T", "U", "X", "Y", "_",
     "a", "b", "c", "d", "e", "i", "l", "m", "n", "o", "r", "s", "t", "u", "x", "y" >>

CharCode(c) == CHOOSE i \in 1..Len(Alphabet) : Alphabet[i] = c

Digits == {"0", "1", "2", "3", "4", "5", "6", "7", "8", "9"}

IsDigit(c) == c \in Digits

\* String.prototype.startsWith / endsWith
StartsWith(s, p) == Len(p) <= Len(s) /\ SubSeq(s, 1, Len(p)) = p

EndsWith(s, p) == Len(p) <= Len(s) /\ SubSeq(s, Len(s) - Len(p) + 1, Len(s)) = p

\* s.substring(n), n counted from 0
Substring(s, n) == SubSeq(s, n + 1, Len(s))

\* first position (from 1) of character c in s, 0 when absent
IndexOfChar(s, c) ==
  IF \E i \in 1..Len(s) : s[i] = c
  THEN CHOOSE i \in 1..Len(s) : s[i] = c /\ \A j \in 1..(i - 1) : s[j] # c
  ELSE 0

\* s.split(sep) for a one-character separator
RECURSIVE Split(_, _)
Split(s, sep) ==
  LET i == IndexOfChar(s, sep)
  IN  IF i = 0 THEN <<s>>
      ELSE <<SubSeq(s, 1, i - 1)>> \o Split(SubSeq(s, i + 1, Len(s)), sep)

\* a.join(sep)
RECURSIVE Join(_, _)
Join(a, sep) ==
  IF a = <<>> THEN <<>>
  ELSE IF Len(a) = 1 THEN a[1]
  ELSE a[1] \o sep \o Join(Tail(a), sep)

\* lexical (code unit) order of two strings
RECURSIVE LexLess(_, _)
LexLess(s, t) ==
  IF t = <<>> THEN FALSE
  ELSE IF s = <<>> THEN TRUE
  ELSE IF Head(s) = Head(t) THEN LexLess(Tail(s), Tail(t))
  ELSE CharCode(Head(s)) < CharCode(Head(t))

\* length of the longest run of digits at the start of s
RECURSIVE DigitRun(_)
DigitRun(s) ==
  IF s # <<>> /\ IsDigit(Head(s)) THEN 1 + DigitRun(Tail(s)) ELSE 0

\* does s start with /^\d+\./
HasNumericPrefix(s) ==
  LET k == DigitRun(s) IN k > 0 /\ Len(s) > k /\ s[k + 1] = "."

\* parseInt of a string of digits
RECURSIVE ParseInt(_)
ParseInt(s) ==
  IF s = <<>> THEN 0
  ELSE 10 * ParseInt(SubSeq(s, 1, Len(s) - 1)) + (CharCode(s[Len(s)]) - CharCode("0"))

\* parseInt((s.match(/^(\d+)\./) || ['0', '0'])[1])
NumericPrefix(s) ==
  IF HasNumericPrefix(s) THEN ParseInt(SubSeq(s, 1, DigitRun(s))) ELSE 0

\* s.replace(/^\d+\./, '')
StripNumericPrefix(s) ==
  IF HasNumericPrefix(s) THEN Substring(s, DigitRun(s) + 1) ELSE s

\* s.replace(/\.md$/, '')
StripMd(s) ==
  IF EndsWith(s, <<".", "m", "d">>) THEN SubSeq(s, 1, Len(s) - 3) ELSE s

(***************************************************************************)
(* Regular expressions built by routeToContentPath                         *)
(***************************************************************************)
\* atoms of a compiled pattern
ReDigits == [t |-> "digits", c |-> ""]

ReLit(c) == [t |-> "lit", c |-> c]

RECURSIVE ReLits(_)
ReLits(s) == IF s = <<>> THEN <<>> ELSE <<ReLit(Head(s))>> \o ReLits(Tail(s))

\* new RegExp(...) throws a SyntaxError on a segment that leaves a group
\* open; "(" is the metacharacter of the model's alphabet that does so
RegExpThrows(segment) == \E i \in 1..Len(segment) : segment[i] = "("

\* a route segment is interpolated unescaped: "." is the wildcard, every
\* other character of the alphabet stands for itself
RECURSIVE ReOfSegment(_)
ReOfSegment(segment) ==
  IF segment = <<>> THEN <<>>
  ELSE <<IF Head(segment) = "." THEN [t |-> "any", c |-> ""] ELSE ReLit(Head(segment))>>
       \o ReOfSegment(Tail(segment))

\* does pat match the whole of s (every pattern of the source ends in $)
RECURSIVE MatchHere(_, _)
MatchHere(pat, s) ==
  IF pat = <<>> THEN s = <<>>
  ELSE LET a == Head(pat)
       IN  CASE a.t = "lit" ->
                  s # <<>> /\ Head(s) = a.c /\ MatchHere(Tail(pat), Tail(s))
             [] a.t = "any" ->
                  s # <<>> /\ MatchHere(Tail(pat), Tail(s))
             [] a.t = "digits" ->
                  \E k \in 1..DigitRun(s) :
                     MatchHere(Tail(pat), SubSeq(s, k + 1, Len(s)))

\* pattern.test(s): the patterns are not anchored at the start
RegExpTest(pat, s) ==
  \E i \in 1..(Len(s) + 1) : MatchHere(pat, SubSeq(s, i, Len(s)))

\* pattern.test(s) for a pattern without anchors: it matches anywhere in s
RegExpSearch(pat, s) ==
  \E i \in 1..(Len(s) + 1) : \E j \in (i - 1)..Len(s) : MatchHere(pat, SubSeq(s, i, j))

\* `\d+\.${segment}`
RePrefixed(segment) == <<ReDigits, ReLit(".")>> \o ReOfSegment(segment)

(***************************************************************************)
(* The Content Store                                                       *)
(***************************************************************************)
ContentRoot == <<"/", "s", "r", "c", "/", "c", "o", "n", "t", "e", "n", "t">>

\* Object.keys(contentModules)
Keys(modules) == [i \in 1..Len(modules) |-> modules[i].path]

\* contentModules[path]; the empty text stands for undefined as well, both
\* are falsy where the source tests the value
Raw(modules, path) ==
  IF \E i \in 1..Len(modules) : modules[i].path = path
  THEN (CHOOSE m \in {modules[i] : i \in 1..Len(modules)} : m.path = path).raw
  ELSE <<>>

\* truthiness of a raw text (or of undefined)
Truthy(raw) == raw # <<>>

(***************************************************************************)
(* useContentQuery.ts                                                      *)
(***************************************************************************)
Thrown == [kind |-> "throw"]

NullResult == [kind |-> "null"]

\* routeToContentPath: the candidate stored paths of a route, or a throw
routeToContentPath(modules, routePath) ==
  IF routePath = <<"/">> \/ routePath = <<>>
  THEN [threw |-> FALSE,
        paths |-> <<ContentRoot \o <<"/", "i", "n", "d", "e", "x", ".", "m", "d">> >>]
  ELSE
    LET normalizedPath ==
          IF StartsWith(routePath, <<"/">>) THEN Substring(routePath, 1) ELSE routePath
        segments == Split(normalizedPath, "/")
        allContentPaths == Keys(modules)
        last == segments[Len(segments)]
        segmentPattern ==
          RePrefixed(segments[1]) \o <<ReLit("/"), ReDigits>>
            \o ReLits(<<".", "i", "n", "d", "e", "x", ".", "m", "d">>)
        indexPattern == RePrefixed(segments[1]) \o ReLits(<<".", "m", "d">>)
        basePattern[i \in 0..(Len(segments) - 1)] ==
          IF i = 0 THEN <<>>
          ELSE basePattern[i - 1] \o RePrefixed(segments[i]) \o <<ReLit("/")>>
        filePattern ==
          basePattern[Len(segments) - 1] \o RePrefixed(last) \o ReLits(<<".", "m", "d">>)
        single(path) == RegExpTest(segmentPattern, path) \/ RegExpTest(indexPattern, path)
        multi(path) == RegExpTest(filePattern, path)
    IN  IF \E i \in 1..Len(segments) : RegExpThrows(segments[i])
        THEN [threw |-> TRUE, paths |-> <<>>]
        ELSE IF Len(segments) = 1
        THEN [threw |-> FALSE, paths |-> SelectSeq(allContentPaths, single)]
        ELSE [threw |-> FALSE, paths |-> SelectSeq(allContentPaths, multi)]

\* findOne: the first candidate whose text is truthy is parsed and returned
findOne(modules, routePath) ==
  LET r == routeToContentPath(modules, routePath)
      found == SelectSeq(r.paths, LAMBDA path : Truthy(Raw(modules, path)))
  IN  IF r.threw THEN Thrown
      ELSE IF found = <<>> THEN NullResult
      ELSE [kind |-> "doc", path |-> found[1], raw |-> Raw(modules, found[1])]

\* find: every stored file whose path the pattern matches, in key order
find(modules, pathPattern) ==
  IF RegExpThrows(pathPattern) THEN Thrown
  ELSE [kind |-> "list",
        docs |-> SelectSeq(modules, LAMBDA m :
                   RegExpSearch(ReOfSegment(pathPattern), m.path))]

\* filePath.startsWith('/') ? filePath : `/${filePath}`
NormalizedPath(filePath) ==
  IF StartsWith(filePath, <<"/">>) THEN filePath ELSE <<"/">> \o filePath

\* findByPath: the direct match first, then the first stored path that,
\* the ordering prefix removed from every segment that follows a slash
\* (path.replace(/\/\d+\./g, '/')), is or ends with the normalized path
findByPath(modules, filePath) ==
  LET strippedPath(path) ==
        Join([i \in 1..Len(Split(path, "/")) |->
                IF i = 1 THEN Split(path, "/")[i]
                ELSE StripNumericPrefix(Split(path, "/")[i])],
             <<"/">>)
      matching ==
        SelectSeq(Keys(modules), LAMBDA path :
          \/ strippedPath(path) = NormalizedPath(filePath)
          \/ EndsWith(strippedPath(path), NormalizedPath(filePath)))
  IN  IF Truthy(Raw(modules, NormalizedPath(filePath)))
      THEN [kind |-> "doc", path |-> NormalizedPath(filePath),
            raw |-> Raw(modules, NormalizedPath(filePath))]
      ELSE IF matching # <<>>
      THEN [kind |-> "doc", path |-> matching[1], raw |-> Raw(modules, matching[1])]
      ELSE NullResult

(***************************************************************************)
(* mdc-components.ts: front matter                                         *)
(*                                                                         *)
(* A raw text is the sequence of its lines (the text is the lines joined   *)
(* by "\n"; the empty text is the empty sequence).  Parsed values carry    *)
(* their JavaScript type.                                                  *)
(***************************************************************************)
Dashes == <<"-", "-", "-">>

IsSpace(c) == c = " "

\* s.trim()
RECURSIVE TrimStart(_)
TrimStart(s) == IF s # <<>> /\ IsSpace(Head(s)) THEN TrimStart(Tail(s)) ELSE s

RECURSIVE TrimEnd(_)
TrimEnd(s) ==
  IF s # <<>> /\ IsSpace(s[Len(s)]) THEN TrimEnd(SubSeq(s, 1, Len(s) - 1)) ELSE s

Trim(s) == TrimEnd(TrimStart(s))

StrValue(s) == [ty |-> "string", v |-> s]

BoolValue(b) == [ty |-> "boolean", v |-> b]

NullValue == [ty |-> "null", v |-> <<>>]

\* a number is mantissa / 10^scale, with no trailing zero in the fraction
NumValue(mantissa, scale) == [ty |-> "number", v |-> <<mantissa, scale>>]

ObjValue(f) == [ty |-> "object", v |-> f]

EmptyObject == ObjValue(<<>>)

Undefined == [ty |-> "undefined", v |-> <<>>]

\* JavaScript truthiness of a value
TruthyValue(x) ==
  CASE x.ty = "string" -> x.v # <<>>
    [] x.ty = "boolean" -> x.v
    [] x.ty = "number" -> x.v[1] # 0
    [] x.ty = "object" -> TRUE
    [] OTHER -> FALSE

\* a || b
OrElse(a, b) == IF TruthyValue(a) THEN a ELSE b

AllDigits(s) == \A i \in 1..Len(s) : IsDigit(s[i])

\* parseFloat of a string matching /^[0-9]*\.[0-9]+$/
ParseFloat(s) ==
  LET dot == IndexOfChar(s, ".")
      frac == SubSeq(s, dot + 1, Len(s))
      kept == CHOOSE k \in 0..Len(frac) :
                /\ \A i \in (k + 1)..Len(frac) : frac[i] = "0"
                /\ (k > 0 => frac[k] # "0")
  IN  NumValue(ParseInt(SubSeq(s, 1, dot - 1) \o SubSeq(frac, 1, kept)), kept)

\* parseValue
parseValue(value) ==
  IF value = <<>> THEN StrValue(<<>>)
  ELSE IF value = <<"t", "r", "u", "e">> THEN BoolValue(TRUE)
  ELSE IF value = <<"f", "a", "l", "s", "e">> THEN BoolValue(FALSE)
  ELSE IF value = <<"n", "u", "l", "l">> THEN NullValue
  ELSE IF AllDigits(value) THEN NumValue(ParseInt(value), 0)
  ELSE IF /\ IndexOfChar(value, ".") > 0
          /\ IndexOfChar(value, ".") < Len(value)
          /\ AllDigits(SubSeq(value, 1, IndexOfChar(value, ".") - 1))
          /\ AllDigits(SubSeq(value, IndexOfChar(value, ".") + 1, Len(value)))
       THEN ParseFloat(value)
  ELSE IF \/ (StartsWith(value, <<"\"">>) /\ EndsWith(value, <<"\"">>))
          \/ (StartsWith(value, <<"'">>) /\ EndsWith(value, <<"'">>))
       THEN StrValue(SubSeq(value, 2, Len(value) - 1))
  ELSE StrValue(value)

\* obj[key], undefined when the key is absent
Get(obj, key) ==
  IF obj.ty = "object" /\ \E i \in 1..Len(obj.v) : obj.v[i].key = key
  THEN (CHOOSE e \in {obj.v[i] : i \in 1..Len(obj.v)} : e.key = key).val
  ELSE Undefined

\* obj[key] = val on an object: an existing key keeps its place
Put(obj, key, val) ==
  IF \E i \in 1..Len(obj.v) : obj.v[i].key = key
  THEN ObjValue([i \in 1..Len(obj.v) |->
                   IF obj.v[i].key = key THEN [key |-> key, val |-> val] ELSE obj.v[i]])
  ELSE ObjValue(Append(obj.v, [key |-> key, val |-> val]))

\* the walk of parseYaml over the parts of a dotted key: every truthy
\* value met on the way is descended into, a falsy one is replaced by {};
\* assigning a property on a primitive throws in module (strict) code
RECURSIVE PutPath(_, _, _)
PutPath(cur, parts, val) ==
  IF cur.ty # "object" THEN [threw |-> TRUE, obj |-> cur]
  ELSE IF Len(parts) = 1 THEN [threw |-> FALSE, obj |-> Put(cur, parts[1], val)]
  ELSE LET r == PutPath(OrElse(Get(cur, parts[1]), EmptyObject), Tail(parts), val)
       IN  IF r.threw THEN [threw |-> TRUE, obj |-> cur]
           ELSE [threw |-> FALSE, obj |-> Put(cur, parts[1], r.obj)]

\* the outcome of the walk over a dotted key, r being what the walk made
\* of the result object
YamlAssign(acc, r) ==
  IF r.threw THEN [threw |-> TRUE, data |-> acc.data]
  ELSE [threw |-> FALSE, data |-> r.obj]

\* the part of the forEach of parseYaml that follows the trim of key and
\* value
YamlEntry(acc, key, value) ==
  IF key = <<>> THEN acc
  ELSE IF StartsWith(key, <<" ", " ">>) THEN acc
  ELSE IF IndexOfChar(key, ".") > 0
       THEN YamlAssign(acc, PutPath(acc.data, Split(key, "."), parseValue(value)))
  ELSE [threw |-> FALSE, data |-> Put(acc.data, key, parseValue(value))]

\* the part of the forEach of parseYaml that follows line.indexOf(':')
YamlLine(acc, line, colonIndex) ==
  IF colonIndex = 0 THEN acc
  ELSE YamlEntry(acc, Trim(SubSeq(line, 1, colonIndex - 1)),
                 Trim(SubSeq(line, colonIndex + 1, Len(line))))

\* one iteration of the forEach of parseYaml
parseYamlLine(acc, line) ==
  IF acc.threw THEN acc
  ELSE IF Trim(line) = <<>> \/ StartsWith(Trim(line), <<"#">>) THEN acc
  ELSE YamlLine(acc, line, IndexOfChar(line, ":"))

\* parseYaml over the lines of a block
RECURSIVE parseYaml(_)
parseYaml(lines) ==
  IF lines = <<>> THEN [threw |-> FALSE, data |-> EmptyObject]
  ELSE parseYamlLine(parseYaml(SubSeq(lines, 1, Len(lines) - 1)), lines[Len(lines)])

\* whether line j closes the block opened by the first line, by
\* /^---\r?\n([\s\S]+?)\r?\n---\r?\n/: the block holds at least one character
Closes(content, j) == content[j] = Dashes /\ ~(j = 3 /\ content[2] = <<>>)

\* the line closing the block, 0 when the text does not match
FrontmatterEnd(content) ==
  IF /\ Len(content) >= 4
     /\ content[1] = Dashes
     /\ \E j \in 3..(Len(content) - 1) : Closes(content, j)
  THEN CHOOSE j \in 3..(Len(content) - 1) :
         /\ Closes(content, j)
         /\ \A k \in 3..(j - 1) : ~Closes(content, k)
  ELSE 0

\* { data: {}, content }
NoFrontmatter(content) == [threw |-> FALSE, data |-> EmptyObject, content |-> content]

\* { data: parseYaml(match[1]), content: content.slice(match[0].length) }
FrontmatterOf(yaml, rest) == [threw |-> yaml.threw, data |-> yaml.data, content |-> rest]

\* parseFrontmatter of a text whose block closes at line end
FrontmatterBlock(content, end) ==
  IF end = 0 THEN NoFrontmatter(content)
  ELSE FrontmatterOf(parseYaml(SubSeq(content, 2, end - 1)),
                     SubSeq(content, end + 1, Len(content)))

\* parseFrontmatter
parseFrontmatter(content) == FrontmatterBlock(content, FrontmatterEnd(content))

(***************************************************************************)
(* mdc-components.ts: navigation                                           *)
(*                                                                         *)
(* Every function that can throw yields a record with a threw field; a     *)
(* list of such records is folded by Collect, so that each function is     *)
(* applied once to each of its inputs.                                     *)
(***************************************************************************)
\* the .navigation.yml files of the content root: the site has none
navigationModules == <<>>

\* a.split('/').pop()
LastSegment(path) == LET parts == Split(path, "/") IN parts[Len(parts)]

\* Array.prototype.sort with a comparator key(a) - key(b), keys[i] being
\* the key of a[i]: the sort is stable
StableSort(a, keys) ==
  LET Insert(sorted, i) ==
        LET n == Cardinality({j \in 1..Len(sorted) : keys[sorted[j]] <= keys[i]})
        IN  SubSeq(sorted, 1, n) \o <<i>> \o SubSeq(sorted, n + 1, Len(sorted))
      f[i \in 0..Len(a)] == IF i = 0 THEN <<>> ELSE Insert(f[i - 1], i)
  IN  [j \in 1..Len(a) |-> a[f[Len(a)][j]]]

\* sortByNumericPrefix, as the key it compares by
sortByNumericPrefix(path) == NumericPrefix(LastSegment(path))

\* paths.sort(sortByNumericPrefix)
SortPaths(paths) ==
  StableSort(paths, [i \in 1..Len(paths) |-> sortByNumericPrefix(paths[i])])

\* Array.from(new Set(a)): first occurrences, in order
Unique(a) ==
  LET f[i \in 0..Len(a)] ==
        IF i = 0 THEN <<>>
        ELSE IF \A j \in 1..(i - 1) : a[j] # a[i] THEN Append(f[i - 1], a[i])
        ELSE f[i - 1]
  IN  f[Len(a)]

ToUpper(c) ==
  IF CharCode(c) >= CharCode("a") THEN Alphabet[CharCode(c) - CharCode("a") + CharCode("A")] ELSE c

\* \w
IsWordChar(c) == IsDigit(c) \/ c = "_" \/ CharCode(c) >= CharCode("A")

\* s.replace(/\b\w/g, toUpperCase)
Capitalised(s) ==
  [i \in 1..Len(s) |->
     IF IsWordChar(s[i]) /\ (i = 1 \/ ~IsWordChar(s[i - 1])) THEN ToUpper(s[i]) ELSE s[i]]

\* formatTitle: slug.replace(/-/g, ' ') and then the capitals
formatTitle(slug) ==
  Capitalised([i \in 1..Len(slug) |-> IF slug[i] = "-" THEN " " ELSE slug[i]])

\* the first segment of a path relative to the content root, when it is a
\* directory named \d+\.[^/]+, the empty string otherwise
SectionName(rest) ==
  IF /\ IndexOfChar(rest, "/") > 0
     /\ HasNumericPrefix(SubSeq(rest, 1, IndexOfChar(rest, "/") - 1))
     /\ IndexOfChar(rest, "/") - 1 > DigitRun(rest) + 1
  THEN SubSeq(rest, 1, IndexOfChar(rest, "/") - 1)
  ELSE <<>>

\* the name of the top-level section a stored path lies in, by
\* /^\/src\/content\/(\d+\.[^/]+)\//, the empty string when there is none
SectionOf(path) ==
  IF StartsWith(path, ContentRoot \o <<"/">>)
  THEN SectionName(Substring(path, Len(ContentRoot) + 1))
  ELSE <<>>

TitleKey == <<"t", "i", "t", "l", "e">>

NavigationKey == <<"n", "a", "v", "i", "g", "a", "t", "i", "o", "n">>

IconKey == <<"i", "c", "o", "n">>

IndexMd == <<"i", "n", "d", "e", "x", ".", "m", "d">>

\* the threw flags and the items of a list of outcomes
Collect(built) ==
  [threw |-> \E i \in 1..Len(built) : built[i].threw,
   items |-> [i \in 1..Len(built) |-> built[i].item]]

\* the file name with the extension removed and the ordering prefix kept
CleanFileName_KeepPrefix(filePath) == StripMd(LastSegment(filePath))

\* the clean file name of a stored path
CleanFileName(filePath) == StripMd(StripNumericPrefix(LastSegment(filePath)))

\* the leaf item pushed for a file whose front matter is parsed
FileItemOf(parsed, fileName, basePath) ==
  [threw |-> parsed.threw,
   item |-> [title |-> OrElse(Get(parsed.data, TitleKey), StrValue(formatTitle(fileName))),
             path |-> basePath \o <<"/">> \o fileName,
             icon |-> Get(Get(parsed.data, NavigationKey), IconKey),
             badge |-> Get(Get(parsed.data, NavigationKey), <<"b", "a", "d", "g", "e">>)]]

\* the leaf item of a file, shared by processSection and processDirFiles
FileItem(modules, filePath, basePath) ==
  FileItemOf(parseFrontmatter(Raw(modules, filePath)), CleanFileName(filePath), basePath)

\* the leaf items of a list of files, in its order
FileItems(modules, files, basePath) ==
  [i \in 1..Len(files) |-> FileItem(modules, files[i], basePath)]

\* processDirFiles
processDirFiles(modules, filePaths, basePath) ==
  Collect(FileItems(modules,
                    SortPaths(SelectSeq(filePaths, LAMBDA path :
                      ~EndsWith(path, IndexMd) /\ ~EndsWith(path, <<"1", ".">> \o IndexMd))),
                    basePath))

\* the front matter of the index file of a directory, {} when it has none
DirMeta(modules, found) ==
  IF found # <<>> THEN parseFrontmatter(Raw(modules, found[1])) ELSE NoFrontmatter(<<>>)

\* the item pushed for a directory of a section
DirItemOf(dirMeta, cleanDirName, dirPath, children) ==
  [threw |-> dirMeta.threw \/ children.threw,
   item |-> [title |-> OrElse(Get(dirMeta.data, TitleKey), StrValue(formatTitle(cleanDirName))),
             path |-> dirPath,
             icon |-> Get(Get(dirMeta.data, NavigationKey), IconKey),
             children |-> children.items]]

\* the body of the forEach of processSection over the directories
DirItem(modules, dirFiles, cleanDirName, dirPath) ==
  DirItemOf(DirMeta(modules, SelectSeq(dirFiles, LAMBDA file :
                      EndsWith(file, <<"/">> \o IndexMd)
                        \/ EndsWith(file, <<"/", "1", ".">> \o IndexMd))),
            cleanDirName, dirPath, processDirFiles(modules, dirFiles, dirPath))

\* relativePath.includes('/'), prefixLen being the length of the section's
\* path prefix
InDir(filePath, prefixLen) == IndexOfChar(Substring(filePath, prefixLen), "/") > 0

\* the directory of a section a nested file is grouped under
DirNameOf(filePath, prefixLen) ==
  SubSeq(Substring(filePath, prefixLen), 1,
         IndexOfChar(Substring(filePath, prefixLen), "/") - 1)

\* Object.keys(filesByDir)
DirNames(nested, prefixLen) ==
  Unique([i \in 1..Len(nested) |-> DirNameOf(nested[i], prefixLen)])

\* the items of the directories of a section, filesByDir[dirName] being the
\* nested files grouped under dirName
DirItems(modules, nested, dirs, prefixLen, base) ==
  [i \in 1..Len(dirs) |->
     DirItem(modules,
             SelectSeq(nested, LAMBDA filePath : DirNameOf(filePath, prefixLen) = dirs[i]),
             StripNumericPrefix(dirs[i]),
             base \o <<"/">> \o StripNumericPrefix(dirs[i]))]

\* the second half of processSection: the files first, the directories
\* after them
SectionItems(modules, files, nested, prefixLen, base) ==
  Collect(FileItems(modules, files, base)
            \o DirItems(modules, nested, SortPaths(DirNames(nested, prefixLen)),
                        prefixLen, base))

\* the first half of processSection: top-level files, the index left out,
\* sorted, and the nested files
SectionSplit(modules, sectionFiles, prefixLen, base) ==
  SectionItems(modules,
               SortPaths(SelectSeq(sectionFiles, LAMBDA filePath :
                 ~InDir(filePath, prefixLen) /\ ~EndsWith(filePath, IndexMd))),
               SelectSeq(sectionFiles, LAMBDA filePath : InDir(filePath, prefixLen)),
               prefixLen, base)

\* processSection of the section whose files begin with sectionPathPrefix
SectionUnder(modules, sectionPathPrefix, base) ==
  SectionSplit(modules,
               SelectSeq(Keys(modules), LAMBDA path :
                 /\ StartsWith(path, sectionPathPrefix)
                 /\ ~EndsWith(path, <<"/", "1", ".">> \o IndexMd)),
               Len(sectionPathPrefix), base)

\* processSection
processSection(modules, section, sectionBaseName) ==
  SectionUnder(modules, ContentRoot \o <<"/">> \o section \o <<"/">>,
               <<"/">> \o sectionBaseName)

\* the front matter of the index of a section, {} when the section has no
\* 1.index.md or an empty one
SectionMeta(indexContent) ==
  IF Truthy(indexContent) THEN parseFrontmatter(indexContent) ELSE NoFrontmatter(<<>>)

\* the .navigation.yml of a section parsed inside try/catch, {} without one
NavConfig(navContent) ==
  IF Truthy(navContent) /\ ~parseYaml(navContent).threw
  THEN parseYaml(navContent).data
  ELSE EmptyObject

\* the item pushed for a section
SectionItemOf(sectionMeta, navConfig, sectionName, children) ==
  [threw |-> sectionMeta.threw \/ children.threw,
   item |-> [title |-> OrElse(Get(sectionMeta.data, TitleKey),
                              StrValue(formatTitle(sectionName))),
             path |-> <<"/">> \o sectionName,
             icon |-> OrElse(Get(Get(sectionMeta.data, NavigationKey), IconKey),
                             Get(navConfig, IconKey)),
             children |-> children.items]]

\* the body of the forEach of generateNavigation over the sections
SectionItem(modules, section, sectionName) ==
  SectionItemOf(
    SectionMeta(Raw(modules, ContentRoot \o <<"/">> \o section \o <<"/", "1", ".">> \o IndexMd)),
    NavConfig(Raw(navigationModules,
                  ContentRoot \o <<"/">> \o section
                    \o <<"/", ".", "n", "a", "v", "i", "g", "a", "t", "i", "o", "n",
                         ".", "y", "m", "l">>)),
    sectionName,
    processSection(modules, section, sectionName))

\* the names of the sections of a list of paths, one per path in a section
SectionNames(contentPaths) ==
  SelectSeq([i \in 1..Len(contentPaths) |-> SectionOf(contentPaths[i])],
            LAMBDA name : name # <<>>)

\* sections.sort by the number before the first dot
SortSections(found) == StableSort(found, [i \in 1..Len(found) |-> NumericPrefix(found[i])])

\* the items of the sections, in their order
AllSectionItems(modules, sections) ==
  [i \in 1..Len(sections) |->
     SectionItem(modules, sections[i], StripNumericPrefix(sections[i]))]

\* what generateNavigation returns for the outcome of its sections
NavigationOf(built) ==
  IF built.threw THEN Thrown ELSE [kind |-> "navigation", items |-> built.items]

\* generateNavigation
generateNavigation(modules) ==
  NavigationOf(Collect(AllSectionItems(modules,
                                        SortSections(Unique(SectionNames(Keys(modules)))))))

(***************************************************************************)
(* useNavigation.ts                                                        *)
(*                                                                         *)
(* folderStructure is kept flat: one entry per object of the nested        *)
(* structure, addressed by the chain of keys that leads to it, in the      *)
(* order the keys were inserted (the key order of each level).             *)
(***************************************************************************)
\* generateTitle: path.split(/[\s-]/g), capitalise each word, join(' ')
generateTitle(path) ==
  LET sep(c) == IsSpace(c) \/ c = "-"
  IN  [i \in 1..Len(path) |->
         IF sep(path[i]) THEN " "
         ELSE IF i = 1 \/ sep(path[i - 1]) THEN ToUpper(path[i])
         ELSE path[i]]

\* fileName.replace(/^\d+\.|\.\w+$/g, '')
CleanNavFileName(fileName) ==
  LET rest == StripNumericPrefix(fileName)
      ext == {i \in 1..(Len(rest) - 1) :
                rest[i] = "." /\ \A j \in (i + 1)..Len(rest) : IsWordChar(rest[j])}
  IN  IF ext = {} THEN rest
      ELSE SubSeq(rest, 1, (CHOOSE i \in ext : TRUE) - 1)

\* part.match(/^(\d+)\./)?.[1] ? parseInt(...) : 999
OrderOf(name) ==
  IF HasNumericPrefix(name) THEN ParseInt(SubSeq(name, 1, DigitRun(name))) ELSE 999

HasEntry(structure, keys) == \E i \in 1..Len(structure) : structure[i].keys = keys

\* level.sort((a, b) => a.order - b.order)
SortByOrder(level) == StableSort(level, [i \in 1..Len(level) |-> level[i].order])

\* Object.values(level) of the level reached by the chain of keys
LevelOf(structure, keys) ==
  SelectSeq(structure, LAMBDA e :
    Len(e.keys) = Len(keys) + 1 /\ SubSeq(e.keys, 1, Len(keys)) = keys)

\* level[key] = entry: an existing key keeps its place and the object it
\* held, children included, is gone
PutEntry(structure, entry) ==
  IF HasEntry(structure, entry.keys)
  THEN SelectSeq([i \in 1..Len(structure) |->
                 IF structure[i].keys = entry.keys THEN entry ELSE structure[i]],
              LAMBDA e : ~(Len(e.keys) > Len(entry.keys)
                           /\ SubSeq(e.keys, 1, Len(entry.keys)) = entry.keys))
  ELSE Append(structure, entry)

\* the body of the forEach of buildNavigationFromContentFiles for one file;
\* frontmatter is module.frontmatter || {}
AddContentFile(acc, path, frontmatter, basePath) ==
  LET structure == acc.structure
      pathParts ==
        Split(IF StartsWith(path, basePath \o <<"/">>)
              THEN Substring(path, Len(basePath) + 1) ELSE path, "/")
      fileName == pathParts[Len(pathParts)]
      folderParts == SubSeq(pathParts, 1, Len(pathParts) - 1)
      cleanFolders == [i \in 1..Len(folderParts) |-> StripNumericPrefix(folderParts[i])]
      chain(i) == SubSeq(cleanFolders, 1, i)
      \* descending into an entry that is a page leaves currentLevel
      \* undefined, and the next access to it throws
      blocked == \E i \in 1..Len(folderParts) :
                    \E j \in 1..Len(structure) :
                      structure[j].keys = chain(i) /\ ~structure[j].isDirectory
      made[i \in 0..Len(folderParts)] ==
        IF i = 0 THEN structure
        ELSE IF HasEntry(made[i - 1], chain(i)) THEN made[i - 1]
        ELSE Append(made[i - 1],
                    [keys |-> chain(i),
                     title |-> StrValue(generateTitle(cleanFolders[i])),
                     path |-> <<"#">> \o cleanFolders[i],
                     isDirectory |-> TRUE,
                     order |-> OrderOf(folderParts[i]),
                     icon |-> Undefined])
      walked == made[Len(folderParts)]
      cleanFileName == CleanNavFileName(fileName)
      isIndex == cleanFileName = <<"i", "n", "d", "e", "x">>
      page ==
        [keys |-> Append(cleanFolders, cleanFileName),
         title |-> OrElse(Get(frontmatter, <<"t", "i", "t", "l", "e">>),
                          StrValue(generateTitle(cleanFileName))),
         path |-> IF Len(folderParts) > 0
                  THEN <<"#">> \o Join(cleanFolders, <<"/">>) \o <<"/">> \o cleanFileName
                  ELSE <<"#">> \o cleanFileName,
         isDirectory |-> FALSE,
         order |-> OrderOf(fileName),
         icon |-> Get(Get(frontmatter, <<"n", "a", "v", "i", "g", "a", "t", "i", "o", "n">>),
                      <<"i", "c", "o", "n">>)]
      placed ==
        IF ~isIndex \/ LevelOf(walked, cleanFolders) = <<>>
        THEN PutEntry(walked, page) ELSE walked
      titled ==
        IF /\ isIndex
           /\ Len(folderParts) > 0
           /\ TruthyValue(Get(frontmatter, <<"t", "i", "t", "l", "e">>))
           /\ HasEntry(placed, cleanFolders)
        THEN [i \in 1..Len(placed) |->
                IF placed[i].keys = cleanFolders
                THEN [placed[i] EXCEPT !.title = Get(frontmatter, <<"t", "i", "t", "l", "e">>)]
                ELSE placed[i]]
        ELSE placed
  IN  IF acc.threw THEN acc
      ELSE IF ~StartsWith(path, basePath) THEN acc
      ELSE IF StartsWith(fileName, <<".">>) THEN acc
      ELSE IF Get(frontmatter, <<"n", "a", "v", "i", "g", "a", "t", "i", "o", "n">>)
                = BoolValue(FALSE) THEN acc
      ELSE IF blocked THEN [threw |-> TRUE, structure |-> structure]
      ELSE [threw |-> FALSE, structure |-> titled]

\* `i-lucide-${title.toLowerCase().replace(/\s+/g, '-')}`
DefaultIcon(title) ==
  LET ToLower(c) ==
        IF CharCode(c) >= CharCode("A") /\ CharCode(c) < CharCode("_")
        THEN Alphabet[CharCode(c) - CharCode("A") + CharCode("a")] ELSE c
      lower == [i \in 1..Len(title) |-> ToLower(title[i])]
      kept == {i \in 1..Len(lower) : ~(IsSpace(lower[i]) /\ i > 1 /\ IsSpace(lower[i - 1]))}
      f[i \in 0..Len(lower)] ==
        IF i = 0 THEN <<>>
        ELSE IF i \in kept
             THEN Append(f[i - 1], IF IsSpace(lower[i]) THEN "-" ELSE lower[i])
             ELSE f[i - 1]
  IN  StrValue(<<"i", "-", "l", "u", "c", "i", "d", "e", "-">> \o f[Len(lower)])

\* a page of the navigation
PageItem(e) == [title |-> e.title, path |-> e.path, active |-> FALSE, icon |-> e.icon]

\* convertStructureToNavigation over the level reached by the chain of keys;
\* a directory item at this level has its title lower-cased for the icon,
\* which throws when the title is not a string
RECURSIVE convertStructureToNavigation(_, _)
convertStructureToNavigation(structure, keys) ==
  LET level == SortByOrder(LevelOf(structure, keys))
      childItem(child) ==
        IF child.isDirectory
        THEN LET sub == convertStructureToNavigation(structure, child.keys)
             IN  [threw |-> sub.threw,
                  item |-> [title |-> child.title, path |-> child.path, icon |-> child.icon,
                            children |-> sub.items]]
        ELSE [threw |-> FALSE, item |-> PageItem(child)]
      levelItem(e) ==
        IF e.isDirectory
        THEN LET kids == SortByOrder(LevelOf(structure, e.keys))
             IN  [threw |-> \/ \E i \in 1..Len(kids) : childItem(kids[i]).threw
                            \/ (~TruthyValue(e.icon) /\ e.title.ty # "string"),
                  item |-> [title |-> e.title, path |-> e.path,
                            icon |-> IF TruthyValue(e.icon) \/ e.title.ty # "string"
                                     THEN e.icon ELSE DefaultIcon(e.title.v),
                            children |-> [i \in 1..Len(kids) |-> childItem(kids[i]).item]]]
        ELSE [threw |-> FALSE, item |-> PageItem(e)]
  IN  [threw |-> \E i \in 1..Len(level) : levelItem(level[i]).threw,
       items |-> [i \in 1..Len(level) |-> levelItem(level[i]).item]]

\* buildNavigationFromContentFiles: navigation.value and error.value after
\* the call on a fresh composable (navigation starts empty, error null);
\* withFrontmatter tells whether the imported modules expose their front
\* matter
buildNavigationFromContentFiles(modules, basePath, withFrontmatter) ==
  LET frontmatter(i) ==
        IF withFrontmatter THEN parseFrontmatter(modules[i].raw).data ELSE EmptyObject
      f[i \in 0..Len(modules)] ==
        IF i = 0 THEN [threw |-> FALSE, structure |-> <<>>]
        ELSE AddContentFile(f[i - 1], modules[i].path, frontmatter(i), basePath)
      built == f[Len(modules)]
      nav == convertStructureToNavigation(built.structure, <<>>)
  IN  IF built.threw \/ nav.threw
      THEN [kind |-> "navigation", items |-> <<>>, error |-> TRUE]
      ELSE [kind |-> "navigation", items |-> nav.items, error |-> FALSE]

(***************************************************************************)
(* Content Stores of the model                                             *)
(***************************************************************************)
\* a stored path under the content root
Stored(rel) == ContentRoot \o <<"/">> \o rel

\* a text with the front matter "title: <t>" and a one-line body
Titled(t) == <<Dashes, <<"t", "i", "t", "l", "e", ":", " ">> \o t, Dashes, <<"B">> >>

TextPlain == << <<"B">> >>

\* /src/content/1.a/1.index.md  (index of section a, titled T)
DocAIndex ==
  [path |-> Stored(<<"1", ".", "a", "/", "1", ".", "i", "n", "d", "e", "x", ".", "m", "d">>),
   raw |-> Titled(<<"T">>)]

\* /src/content/1.b/1.x.md  (section b shares the ordering prefix of section a)
DocBX ==
  [path |-> Stored(<<"1", ".", "b", "/", "1", ".", "x", ".", "m", "d">>),
   raw |-> TextPlain]

Universe ==
  LET
    \* /src/content/1.a/index.md  (index of section a without ordering prefix, titled U)
    DocAPlainIndex ==
      [path |-> Stored(<<"1", ".", "a", "/", "i", "n", "d", "e", "x", ".", "m", "d">>),
       raw |-> Titled(<<"U">>)]
    \* /src/content/1.a/2.x.md
    DocAX2 ==
      [path |-> Stored(<<"1", ".", "a", "/", "2", ".", "x", ".", "m", "d">>),
       raw |-> TextPlain]
    \* /src/content/1.a/3.x.md  (a second file with the clean name x)
    DocAX3 ==
      [path |-> Stored(<<"1", ".", "a", "/", "3", ".", "x", ".", "m", "d">>),
       raw |-> Titled(<<"X">>)]
    \* /src/content/1.a/1.b/1.index.md  (index of the nested directory b, titled S)
    DocABIndex ==
      [path |-> Stored(<<"1", ".", "a", "/", "1", ".", "b", "/", "1", ".", "i", "n", "d", "e", "x", ".", "m", "d">>),
       raw |-> Titled(<<"S">>)]
    \* /src/content/1.a/1.b/2.y.md
    DocABY ==
      [path |-> Stored(<<"1", ".", "a", "/", "1", ".", "b", "/", "2", ".", "y", ".", "m", "d">>),
       raw |-> TextPlain]
    \* /src/content/1.a/1.b/1.c/2.x.md  (a file two directories below section a)
    DocABCX ==
      [path |-> Stored(<<"1", ".", "a", "/", "1", ".", "b", "/", "1", ".", "c", "/", "2", ".", "x", ".", "m", "d">>),
       raw |-> TextPlain]
    \* /src/content/1.a/2.b.md  (a flat file b next to the nested directory b)
    DocAB ==
      [path |-> Stored(<<"1", ".", "a", "/", "2", ".", "b", ".", "m", "d">>),
       raw |-> TextPlain]
    \* /src/content/1.a.md  (a flat top-level page a next to the section a)
    DocA ==
      [path |-> Stored(<<"1", ".", "a", ".", "m", "d">>),
       raw |-> TextPlain]
    \* /src/content/index.md  (the index of the content root)
    DocRootIndex ==
      [path |-> Stored(<<"i", "n", "d", "e", "x", ".", "m", "d">>),
       raw |-> Titled(<<"I">>)]
  IN
    {DocAIndex, DocAPlainIndex, DocAX2, DocAX3, DocABIndex,
    DocABY, DocABCX, DocAB, DocA, DocBX, DocRootIndex}

\* "/a"
RouteA == <<"/", "a">>

\* "/b/x"
RouteBX == <<"/", "b", "/", "x">>

\* "/c"
RouteC == <<"/", "c">>

\* "/("
RouteParen == <<"/", "(">>

Patterns ==
  LET
    \* "x"
    PatternX == <<"x">>
    \* "1.a/"
    PatternSectionA == <<"1", ".", "a", "/">>
    \* "index"
    PatternIndex == <<"i", "n", "d", "e", "x">>
    \* "("
    PatternParen == <<"(">>
  IN
    {PatternX, PatternSectionA, PatternIndex, PatternParen}

Routes ==
  LET
    \* "/"
    RouteRoot == <<"/">>
    \* ""
    RouteEmpty == <<>>
    \* "/a/x"
    RouteAX == <<"/", "a", "/", "x">>
    \* "/a/b"
    RouteAB == <<"/", "a", "/", "b">>
    \* "/a/b/y"
    RouteABY == <<"/", "a", "/", "b", "/", "y">>
    \* "/b"
    RouteB == <<"/", "b">>
    \* "/x"
    RouteX == <<"/", "x">>
    \* "/."
    RouteDot == <<"/", ".">>
    \* "a/x"
    RouteNoSlash == <<"a", "/", "x">>
  IN
    {RouteRoot, RouteEmpty, RouteA, RouteAX, RouteAB,
    RouteABY, RouteBX, RouteB, RouteX, RouteC,
    RouteParen, RouteDot, RouteNoSlash}

\* the directory of a stored path (the path without its last segment)
DirOf(path) == SubSeq(path, 1, Len(path) - Len(LastSegment(path)) - 1)

\* is the file an index document: index.md or <prefix>.index.md
IsIndexFile(path) == StripNumericPrefix(LastSegment(path)) = IndexMd

\* the stores: the key order of the glob import is any order of the files
Stores ==
  {m \in UNION {[1..n -> Universe] : n \in 0..MaxStore} :
     /\ \A i, j \in 1..Len(m) : m[i] = m[j] => i = j
     \* the content format: a directory has at most one index document
     /\ \A i, j \in 1..Len(m) :
           /\ IsIndexFile(m[i].path)
           /\ IsIndexFile(m[j].path)
           /\ DirOf(m[i].path) = DirOf(m[j].path)
           => i = j}

(***************************************************************************)
(* The state machine                                                       *)
(***************************************************************************)
NoResult == [kind |-> "none"]

\* error.value when there is none
NoError == [kind |-> "undefined"]

\* no page is mounted: the refs of useAsync do not exist
NoPage ==
  /\ currentPath = <<>>
  /\ data = NullResult
  /\ error = NoError
  /\ status = "idle"
  /\ canceled = FALSE
  /\ asyncPromises = {}
  /\ requests = <<>>
  /\ held = FALSE

Init ==
  /\ contentModules \in Stores
  /\ op = "init"
  /\ arg = <<>>
  /\ ret = NoResult
  /\ navigation = <<>>
  /\ NoPage

\* a call of findOne(routePath)
FindOne(routePath) ==
  /\ op' = "findOne"
  /\ arg' = routePath
  /\ ret' = findOne(contentModules, routePath)
  /\ UNCHANGED contentModules

\* a call of generateNavigation()
GenerateNavigation ==
  /\ op' = "generateNavigation"
  /\ arg' = <<>>
  /\ ret' = generateNavigation(contentModules)
  /\ UNCHANGED contentModules

\* useNavigation({ contentFolderBase }).buildNavigation()
BuildNavigation(withFrontmatter) ==
  /\ op' = "buildNavigation"
  /\ arg' = <<>>
  /\ ret' = buildNavigationFromContentFiles(contentModules, ContentRoot, withFrontmatter)
  /\ UNCHANGED contentModules

\* a call of find that takes the files it returns out of the store
Find_Consuming(pathPattern) ==
  /\ op' = "find"
  /\ arg' = pathPattern
  /\ ret' = find(contentModules, pathPattern)
  /\ contentModules' =
       SelectSeq(contentModules, LAMBDA m :
         RegExpThrows(pathPattern) \/ ~RegExpSearch(ReOfSegment(pathPattern), m.path))

\* a call of find(pathPattern)
Find(pathPattern) ==
  /\ op' = "find"
  /\ arg' = pathPattern
  /\ ret' = find(contentModules, pathPattern)
  /\ UNCHANGED contentModules

\* a call of findByPath(filePath)
FindByPath(filePath) ==
  /\ op' = "findByPath"
  /\ arg' = filePath
  /\ ret' = findByPath(contentModules, filePath)
  /\ UNCHANGED contentModules

\* what a call of parseFrontmatter returns or throws
Parsed(r) ==
  IF r.threw THEN Thrown ELSE [kind |-> "parsed", data |-> r.data, content |-> r.content]

\* a call of parseFrontmatter(content)
ParseFrontmatter(content) ==
  /\ op' = "parseFrontmatter"
  /\ arg' = content
  /\ ret' = Parsed(parseFrontmatter(content))
  /\ UNCHANGED contentModules

Next ==
  /\ \/ \E routePath \in Routes : FindOne(routePath)
     \/ \E pathPattern \in Patterns : Find(pathPattern)
     \/ GenerateNavigation
     \/ \E withFrontmatter \in BOOLEAN : BuildNavigation(withFrontmatter)
     \/ \E i \in 1..Len(contentModules) : ParseFrontmatter(contentModules[i].raw)
  /\ UNCHANGED <<navigation, asyncVars>>

Spec == Init /\ [][Next]_vars

(***************************************************************************)
(* The front-matter parser on its own: parseFrontmatter, parseYaml and     *)
(* parseValue applied to texts, blocks and scalars drawn from small sets   *)
(***************************************************************************)
MaxTextLines == 7

MaxYamlLines == 3

\* "a: 1"
LineA1 == <<"a", ":", " ", "1">>

\* "a.b: 2"
LineAB2 == <<"a", ".", "b", ":", " ", "2">>

\* "navigation:"
LineNavigation == <<"n", "a", "v", "i", "g", "a", "t", "i", "o", "n", ":">>

\* "  icon: X"
LineIcon == <<" ", " ", "i", "c", "o", "n", ":", " ", "X">>

\* the texts given to parseFrontmatter, line by line
Texts == UNION {[1..n -> {Dashes, <<>>, LineA1, LineAB2}] : n \in 0..MaxTextLines}

\* the lines of the blocks given to parseYaml
YamlLines ==
  LET
    \* "a"  (no colon)
    LineA == <<"a">>
    \* "a: true"
    LineATrue == <<"a", ":", " ", "t", "r", "u", "e">>
    \* 'c: "A B"'
    LineCQuoted == <<"c", ":", " ", "\"", "A", " ", "B", "\"">>
  IN
    {LineA1, LineAB2, LineA, LineATrue, LineNavigation, LineIcon, LineCQuoted}

Blocks == UNION {[1..n -> YamlLines] : n \in 0..MaxYamlLines}

\* the trimmed scalars given to parseValue
Values ==
  {<<>>,
   <<"t", "r", "u", "e">>, <<"f", "a", "l", "s", "e">>, <<"n", "u", "l", "l">>,
   <<"T", "r", "u", "e">>,
   <<"3">>, <<"0", "3">>, <<"3", ".", "5">>, <<".", "5">>, <<"3", ".">>,
   <<"1", ".", "5", "0">>, <<"-", "3">>,
   <<"\"", "t", "r", "u", "e", "\"">>, <<"\"", "n", "u", "l", "l", "\"">>,
   <<"\"", "3", "\"">>, <<"'", "3", "'">>, <<"\"", "A", " ", "B", "\"">>,
   <<"'", "x", "'">>, <<"\"", "\"">>, <<"\"">>, <<"'">>, <<"\"", "x", "'">>,
   <<"x">>}

\* what a call of parseYaml returns or throws
Yaml(r) == IF r.threw THEN Thrown ELSE [kind |-> "yaml", data |-> r.data]

\* a call of parseYaml on the lines of a block
ParseYaml(lines) ==
  /\ op' = "parseYaml"
  /\ arg' = lines
  /\ ret' = Yaml(parseYaml(lines))
  /\ UNCHANGED contentModules

\* a call of parseValue(value)
ParseValue(value) ==
  /\ op' = "parseValue"
  /\ arg' = value
  /\ ret' = [kind |-> "value", value |-> parseValue(value)]
  /\ UNCHANGED contentModules

ParseInit ==
  /\ contentModules = <<>>
  /\ op = "init"
  /\ arg = <<>>
  /\ ret = NoResult
  /\ navigation = <<>>
  /\ NoPage

\* one call is made on each input: the functions are pure, so that a second
\* call adds nothing
ParseNext ==
  /\ op = "init"
  /\ \/ \E content \in Texts : ParseFrontmatter(content)
     \/ \E lines \in Blocks : ParseYaml(lines)
     \/ \E value \in Values : ParseValue(value)
  /\ UNCHANGED <<navigation, asyncVars>>

ParseSpec == ParseInit /\ [][ParseNext]_vars

(***************************************************************************)
(* The navigation of a layout: a useNavigation composable that lives on,   *)
(* next to generateNavigation, over stores whose names end with index.md,  *)
(* carry no ordering prefix or carry a large one                           *)
(***************************************************************************)
\* the files of the stores of the navigation
NavUniverse ==
  LET
    \* /src/content/1.a/2.x.md
    NavAX ==
      [path |-> Stored(<<"1", ".", "a", "/", "2", ".", "x", ".", "m", "d">>),
       raw |-> TextPlain]
    \* /src/content/1.a/3.xindex.md  (a page whose name ends with index)
    NavAXIndex ==
      [path |-> Stored(<<"1", ".", "a", "/", "3", ".", "x", "i", "n", "d", "e", "x", ".", "m", "d">>),
       raw |-> TextPlain]
    \* /src/content/1.a/1.b/2.xindex.md  (the same one directory below)
    NavABXIndex ==
      [path |-> Stored(<<"1", ".", "a", "/", "1", ".", "b", "/", "2", ".", "x", "i", "n", "d", "e", "x", ".", "m", "d">>),
       raw |-> TextPlain]
    \* /src/content/1.a/y.md  (a page without ordering prefix)
    NavAY ==
      [path |-> Stored(<<"1", ".", "a", "/", "y", ".", "m", "d">>),
       raw |-> TextPlain]
    \* /src/content/1.a/1000.c.md  (a page with a large ordering prefix)
    NavAC ==
      [path |-> Stored(<<"1", ".", "a", "/", "1", "0", "0", "0", ".", "c", ".", "m", "d">>),
       raw |-> TextPlain]
  IN
    {DocAIndex, NavAX, NavAXIndex, NavABXIndex, NavAY, NavAC}

\* the stores of the navigation, in any key order
NavStores ==
  {m \in UNION {[1..n -> NavUniverse] : n \in 0..MaxStore} :
     \A i, j \in 1..Len(m) : m[i] = m[j] => i = j}

\* the paths asked of findByPath
FilePaths ==
  {\* "/src/content/1.a/2.x.md", and the same without its leading slash
   Stored(<<"1", ".", "a", "/", "2", ".", "x", ".", "m", "d">>),
   Tail(Stored(<<"1", ".", "a", "/", "2", ".", "x", ".", "m", "d">>)),
   \* "/src/content/a/x.md"
   Stored(<<"a", "/", "x", ".", "m", "d">>),
   \* "/index.md"
   <<"/">> \o IndexMd}

NavInit ==
  /\ contentModules \in NavStores
  /\ op = "init"
  /\ arg = <<>>
  /\ ret = NoResult
  /\ navigation = <<>>
  /\ NoPage

\* buildNavigation() of the composable the layout holds: navigation.value
\* is replaced, or left as it was when the building throws
Build(withFrontmatter) ==
  /\ BuildNavigation(withFrontmatter)
  /\ navigation' = IF ret'.error THEN navigation ELSE ret'.items

\* markActive with the flag of an item that has an active item below it
\* set as well
RECURSIVE markActive_WithParents(_, _)
markActive_WithParents(items, path) ==
  [i \in 1..Len(items) |->
     [f \in DOMAIN items[i] \cup {"active"} |->
        IF f = "active"
        THEN \/ items[i].path = path
             \/ /\ "children" \in DOMAIN items[i]
                /\ \E k \in 1..Len(items[i].children) :
                      markActive_WithParents(items[i].children, path)[k].active
        ELSE IF f = "children" THEN markActive_WithParents(items[i].children, path)
        ELSE items[i][f]]]

\* markActive of setActivePath: item.active = (item.path === path) for
\* every item, the children of an item after the item itself
RECURSIVE markActive(_, _)
markActive(items, path) ==
  [i \in 1..Len(items) |->
     [f \in DOMAIN items[i] \cup {"active"} |->
        IF f = "active" THEN items[i].path = path
        ELSE IF f = "children" THEN markActive(items[i].children, path)
        ELSE items[i][f]]]

\* a call of setActivePath(path)
SetActivePath(path) ==
  /\ op' = "setActivePath"
  /\ arg' = path
  /\ ret' = NoResult
  /\ navigation' = markActive(navigation, path)
  /\ UNCHANGED contentModules

\* the paths given to setActivePath: "#a", "#a/x", "#a/index", and the
\* route "/a"
ActivePaths ==
  {<<"#", "a">>, <<"#", "a", "/", "x">>, <<"#", "a", "/", "i", "n", "d", "e", "x">>,
   <<"/", "a">>}

NavNext ==
  /\ \/ GenerateNavigation /\ UNCHANGED navigation
     \/ \E withFrontmatter \in BOOLEAN : Build(withFrontmatter)
     \/ \E filePath \in FilePaths : FindByPath(filePath) /\ UNCHANGED navigation
     \/ \E path \in ActivePaths : SetActivePath(path)
  /\ UNCHANGED asyncVars

NavSpec == NavInit /\ [][NavNext]_vars

(***************************************************************************)
(* The docs page: pages/[...slug].vue and the useAsync of asyncData        *)
(*                                                                         *)
(* The page is one component for every route, so its useAsync lives across *)
(* navigations.  handler() runs up to the first await inside the Promise   *)
(* executor: findOne is called with the route of that moment, and what it  *)
(* will resolve to or throw is fixed when the request starts.  The chain   *)
(* .then/.catch/.finally of a request runs later, in two steps.            *)
(***************************************************************************)
\* largest number of requests whose promise chain has not run to its end
MaxRequests == 2

\* `content-${currentPath.value}`
KeyOf(routePath) == <<"c", "o", "n", "t", "e", "n", "t", "-">> \o routePath

\* the promise of a request: its key when it started and what findOne makes
\* of the route of that moment
Request(modules, routePath) ==
  [key |-> KeyOf(routePath), outcome |-> findOne(modules, routePath), stage |-> "running"]

\* data.value?.ast || null
Ast == IF data.kind = "doc" THEN data ELSE NullResult

\* the stores and routes of the page
PageStores == {<<>>, <<DocAIndex>>, <<DocAIndex, DocBX>>}

PageRoutes == {RouteA, RouteBX, RouteC, RouteParen}

\* the page is set up: useAsync has made its refs from the default and,
\* being immediate, has started the request of the first route
PageInit ==
  /\ contentModules \in PageStores
  /\ op = "init"
  /\ arg = <<>>
  /\ ret = NoResult
  /\ navigation = <<>>
  /\ currentPath \in PageRoutes
  /\ data = NullResult
  /\ error = NoError
  /\ status = "pending"
  /\ canceled = FALSE
  /\ asyncPromises = {KeyOf(currentPath)}
  /\ requests = <<Request(contentModules, currentPath)>>
  /\ held = FALSE

\* _execute under dedupe 'cancel', up to its await, _key.value being the
\* key of the route
Execute(routePath) ==
  /\ Len(requests) < MaxRequests
  /\ canceled' = (canceled \/ KeyOf(routePath) \in asyncPromises)
  /\ status' = "pending"
  /\ requests' = Append(requests, Request(contentModules, routePath))
  /\ asyncPromises' = asyncPromises \cup {KeyOf(routePath)}
  /\ UNCHANGED <<data, error>>

\* execute(), the debounced _execute (wait 0, leading): the call goes
\* through to _execute at once, or, made while an earlier call has not
\* returned, may be kept back until it has
Debounced(routePath) ==
  \/ Execute(routePath) /\ UNCHANGED held
  \/ /\ requests # <<>>
     /\ held' = TRUE
     /\ UNCHANGED <<data, error, status, canceled, asyncPromises, requests>>

\* the route changes and the watcher calls execute
Navigate(routePath) ==
  /\ routePath # currentPath
  /\ currentPath' = routePath
  /\ Debounced(routePath)
  /\ UNCHANGED <<contentModules, op, arg, ret>>

\* refresh(), or execute(), called by the holder of the useAsync
Refresh ==
  /\ Debounced(currentPath)
  /\ UNCHANGED <<contentModules, op, arg, ret, currentPath>>

\* the call that was kept back goes through once the earlier calls have
\* returned
Trailing ==
  /\ held
  /\ requests = <<>>
  /\ held' = FALSE
  /\ Execute(currentPath)
  /\ UNCHANGED <<contentModules, op, arg, ret, currentPath>>

\* clear()
Clear ==
  /\ data' = NullResult
  /\ error' = NoError
  /\ status' = "idle"
  /\ asyncPromises' = asyncPromises \ {KeyOf(currentPath)}
  /\ canceled' = FALSE
  /\ UNCHANGED <<contentModules, op, arg, ret, currentPath, requests, held>>

\* the .then or the .catch of the i-th request runs: the handler has
\* resolved with the document, or has rejected (findOne returned null and
\* the handler threw, or findOne threw)
Settle(i) ==
  /\ requests[i].stage = "running"
  /\ requests' = [requests EXCEPT ![i].stage = "settled"]
  /\ IF canceled
     THEN UNCHANGED <<data, error, status>>
     ELSE IF requests[i].outcome.kind = "doc"
     THEN /\ data' = requests[i].outcome
          /\ error' = NoError
          /\ status' = "success"
     ELSE /\ error' = [kind |-> "error", cause |-> requests[i].outcome.kind]
          /\ status' = "error"
          /\ UNCHANGED data
  /\ UNCHANGED <<contentModules, op, arg, ret, currentPath, canceled, asyncPromises, held>>

\* the .finally of the i-th request runs
Finally(i) ==
  /\ requests[i].stage = "settled"
  /\ requests' = SubSeq(requests, 1, i - 1) \o SubSeq(requests, i + 1, Len(requests))
  /\ IF canceled
     THEN UNCHANGED <<asyncPromises, canceled>>
     ELSE /\ asyncPromises' = asyncPromises \ {KeyOf(currentPath)}
          /\ canceled' = FALSE
  /\ UNCHANGED <<contentModules, op, arg, ret, currentPath, data, error, status, held>>

PageNext ==
  /\ \/ \E routePath \in PageRoutes : Navigate(routePath)
     \/ Refresh
     \/ Trailing
     \/ Clear
     \/ \E i \in 1..Len(requests) : Settle(i)
     \/ \E i \in 1..Len(requests) : Finally(i)
  /\ UNCHANGED navigation

PageSpec == PageInit /\ [][PageNext]_vars

(***************************************************************************)
(* What the specification says of paths (used by the properties only)      *)
(***************************************************************************)
\* does a segment start with an ordering prefix: digits, then "."
HasOrderingPrefix(seg) ==
  \E k \in 1..(Len(seg) - 1) :
     /\ \A i \in 1..k : seg[i] \in Digits
     /\ seg[k + 1] = "."

\* the segment without its ordering prefix
WithoutOrderingPrefix(seg) ==
  IF HasOrderingPrefix(seg)
  THEN LET k == CHOOSE k \in 1..(Len(seg) - 1) :
                  (\A i \in 1..k : seg[i] \in Digits) /\ seg[k + 1] = "."
       IN  SubSeq(seg, k + 2, Len(seg))
  ELSE seg

KeepsMd(seg) == Len(seg) >= 3 /\ SubSeq(seg, Len(seg) - 2, Len(seg)) = <<".", "m", "d">>

WithoutMd(seg) == IF KeepsMd(seg) THEN SubSeq(seg, 1, Len(seg) - 3) ELSE seg

\* the raw segments of a stored path below the content root
RawSegments(path) == Split(SubSeq(path, Len(ContentRoot) + 2, Len(path)), "/")

\* the segments with ordering prefixes and the extension removed
CleanAll(path) ==
  LET raw == RawSegments(path)
  IN  [i \in 1..Len(raw) |-> WithoutMd(WithoutOrderingPrefix(raw[i]))]

IsIndexDocument(path) == CleanAll(path)[Len(CleanAll(path))] = <<"i", "n", "d", "e", "x">>

\* the public segments of a document: an index stands for its directory
PublicSegments(path) ==
  IF IsIndexDocument(path)
  THEN SubSeq(CleanAll(path), 1, Len(CleanAll(path)) - 1)
  ELSE CleanAll(path)

\* publicPathOf
publicPathOf(path) == <<"/">> \o Join(PublicSegments(path), <<"/">>)

\* the segments a route asks for
RouteSegments(routePath) ==
  LET p == IF routePath # <<>> /\ routePath[1] = "/"
           THEN SubSeq(routePath, 2, Len(routePath)) ELSE routePath
  IN  IF p = <<>> THEN <<>> ELSE Split(p, "/")

\* the stored path answers the route, segment by segment
Answers(path, routePath) == PublicSegments(path) = RouteSegments(routePath)

StoredPaths == {contentModules[i].path : i \in 1..Len(contentModules)}

\* every raw segment of the path carries an ordering prefix
AllPrefixed(path) == \A i \in 1..Len(RawSegments(path)) : HasOrderingPrefix(RawSegments(path)[i])

\* the document returned by a findOne call
Returned(path) == ret.kind = "doc" /\ ret.path = path

(***************************************************************************)
(* Properties                                                              *)
(***************************************************************************)
\* the store enumerates its keys in lexical order, as a glob import that
\* sorts the files it finds does
KeysSorted ==
  \A i, j \in 1..Len(contentModules) :
     i < j => LexLess(contentModules[i].path, contentModules[j].path)

\* C1: round trip. Every document of the store is returned by findOne on
\* its own public path (stated for the documents whose path carries an
\* ordering prefix on every segment, in a store with sorted keys).
C1_RoundTrip ==
  (op = "findOne" /\ KeysSorted) =>
    \A path \in StoredPaths :
       (AllPrefixed(path) /\ arg = publicPathOf(path)) => Returned(path)

\* C2: for every route, if no stored path answers it, findOne returns null
\* and does not throw.
C2_NotFoundIsNull ==
  (op = "findOne" /\ \A path \in StoredPaths : ~Answers(path, arg)) => ret = NullResult

\* the route is made of plain names: no character that a regular
\* expression reads as syntax
PlainRoute(routePath) ==
  \A i \in 1..Len(routePath) : routePath[i] \notin {".", "("}

\* C3: a returned document answers the route segment by segment; a stored
\* path that only ends with the requested segments below further
\* directories is never returned.
C3_ReturnedAnswersRoute ==
  (op = "findOne" /\ KeysSorted /\ PlainRoute(arg) /\ ret.kind = "doc")
    => Answers(ret.path, arg)

\* every order in which the store can enumerate the same files
Reorderings(modules) ==
  {m \in [1..Len(modules) -> {modules[i] : i \in 1..Len(modules)}] :
     \A i, j \in 1..Len(m) : m[i] = m[j] => i = j}

\* the stored paths that answer the route, every segment prefixed
Answering(routePath) ==
  {path \in StoredPaths : AllPrefixed(path) /\ Answers(path, routePath)}

\* C4: the result does not depend on the order the store enumerates its
\* keys in, and among several stored paths answering the route the
\* lexically smallest is returned.
C4_Deterministic ==
  (op = "findOne" /\ PlainRoute(arg)) =>
    /\ \A m \in Reorderings(contentModules) : findOne(m, arg) = ret
    /\ Cardinality(Answering(arg)) >= 2 =>
          /\ ret.kind = "doc"
          /\ ret.path \in Answering(arg)
          /\ \A path \in Answering(arg) : ~LexLess(path, ret.path)

\* C5: for a single-segment route answered by both a directory index and a
\* flat document, the directory index is returned.
C5_DirectoryIndexFirst ==
  (/\ op = "findOne"
   /\ KeysSorted
   /\ Len(RouteSegments(arg)) = 1
   /\ \E dir, flat \in StoredPaths :
         /\ AllPrefixed(dir) /\ AllPrefixed(flat)
         /\ Answers(dir, arg) /\ IsIndexDocument(dir)
         /\ Answers(flat, arg) /\ ~IsIndexDocument(flat))
  => (ret.kind = "doc" /\ Answers(ret.path, arg) /\ IsIndexDocument(ret.path))

\* C6: a route of two or more segments is answered by the flat file of its
\* last segment as well as by the index of a nested directory of that name.
C6_NestedFileOrIndex ==
  (/\ op = "findOne"
   /\ KeysSorted
   /\ Len(RouteSegments(arg)) >= 2
   /\ \E path \in StoredPaths : AllPrefixed(path) /\ Answers(path, arg))
  => (ret.kind = "doc" /\ Answers(ret.path, arg))

\* the segments of the path of a navigation item, without the leading
\* "/" (generateNavigation) or "#" (buildNavigationFromContentFiles)
ItemSegments(item) == Split(SubSeq(item.path, 2, Len(item.path)), "/")

HasChildren(item) == "children" \in DOMAIN item

\* the items of a navigation tree, at every level
RECURSIVE ItemsOf(_)
ItemsOf(items) ==
  UNION {{items[i]} \cup (IF HasChildren(items[i]) THEN ItemsOf(items[i].children) ELSE {}) :
           i \in 1..Len(items)}

\* the sibling lists of a navigation tree, each with the segments of the
\* item it hangs under (none for the top-level list)
RECURSIVE ListsOf(_, _)
ListsOf(parent, items) ==
  {[parent |-> parent, items |-> items]}
    \cup UNION {IF HasChildren(items[i])
                THEN ListsOf(ItemSegments(items[i]), items[i].children) ELSE {} :
                  i \in 1..Len(items)}

\* the raw names an item of a sibling list can come from: the files (for a
\* leaf) or directories (for an item with children) of the parent
\* directory whose clean name is the item's last segment
RawNamesOf(parent, item) ==
  LET n == Len(parent) + 1
      segs == ItemSegments(item)
  IN  {RawSegments(path)[n] : path \in
         {p \in StoredPaths :
            /\ Len(RawSegments(p)) >= n
            /\ SubSeq(CleanAll(p), 1, n) = Append(parent, segs[Len(segs)])
            /\ IF HasChildren(item) THEN Len(RawSegments(p)) > n
                                    ELSE Len(RawSegments(p)) = n}}

\* the item comes from one raw name, and that name has an ordering prefix
Traced(parent, item) ==
  /\ Cardinality(RawNamesOf(parent, item)) = 1
  /\ \A raw \in RawNamesOf(parent, item) : HasOrderingPrefix(raw)

RawNameOf(parent, item) == CHOOSE raw \in RawNamesOf(parent, item) : TRUE

\* the number an ordering prefix stands for
RECURSIVE NumberOf(_)
NumberOf(digits) ==
  IF digits = <<>> THEN 0
  ELSE 10 * NumberOf(SubSeq(digits, 1, Len(digits) - 1))
         + (CHOOSE d \in 0..9 : <<"0", "1", "2", "3", "4", "5", "6", "7", "8", "9">>[d + 1]
                                   = digits[Len(digits)])

OrderingNumber(raw) ==
  NumberOf(SubSeq(raw, 1, Len(raw) - Len(WithoutOrderingPrefix(raw)) - 1))

\* the front-matter title of a raw text
TitleOf(raw) == Get(parseFrontmatter(raw).data, <<"t", "i", "t", "l", "e">>)

\* the index document of a prefixed top-level directory, with a title
IsTitledSectionIndex(path) ==
  /\ Len(RawSegments(path)) = 2
  /\ HasOrderingPrefix(RawSegments(path)[1])
  /\ IsIndexDocument(path)
  /\ TitleOf(Raw(contentModules, path)).ty = "string"
  /\ TitleOf(Raw(contentModules, path)).v # <<>>

\* C7: a prefixed top-level directory whose index document has the title T
\* yields exactly one top-level item with title T and the path of the clean
\* directory name, and no index document is a child of its directory.
C7_SectionFromIndex ==
  (op = "generateNavigation" /\ KeysSorted) =>
    /\ ret.kind = "navigation"
    /\ \A path \in StoredPaths :
          IsTitledSectionIndex(path) =>
            Cardinality({i \in 1..Len(ret.items) :
                           /\ ret.items[i].title = TitleOf(Raw(contentModules, path))
                           /\ ret.items[i].path = <<"/">> \o CleanAll(path)[1]}) = 1
    /\ \A item \in ItemsOf(ret.items) :
          ItemSegments(item)[Len(ItemSegments(item))] # <<"i", "n", "d", "e", "x">>

\* C8: in every sibling list the items are in non-decreasing order of the
\* ordering prefix of the raw file or directory they come from, files and
\* subdirectories together.
C8_SiblingsByPrefix ==
  (op = "generateNavigation" /\ KeysSorted /\ ret.kind = "navigation") =>
    \A list \in ListsOf(<<>>, ret.items) :
       \A i, j \in 1..Len(list.items) :
          (/\ i < j
           /\ Traced(list.parent, list.items[i])
           /\ Traced(list.parent, list.items[j]))
          => OrderingNumber(RawNameOf(list.parent, list.items[i]))
               <= OrderingNumber(RawNameOf(list.parent, list.items[j]))

\* C9: of two siblings with the same ordering prefix the one whose raw name
\* is lexically smaller comes first, whatever the order of the store.
C9_TieByRawName ==
  (op = "generateNavigation" /\ ret.kind = "navigation") =>
    \A list \in ListsOf(<<>>, ret.items) :
       \A i, j \in 1..Len(list.items) :
          (/\ i < j
           /\ Traced(list.parent, list.items[i])
           /\ Traced(list.parent, list.items[j])
           /\ OrderingNumber(RawNameOf(list.parent, list.items[i]))
                = OrderingNumber(RawNameOf(list.parent, list.items[j])))
          => ~LexLess(RawNameOf(list.parent, list.items[j]),
                      RawNameOf(list.parent, list.items[i]))

\* the names of the store follow <positive-integer>.<name>[.md], the name
\* itself not starting with digits and a dot; an index may be index.md
Conforming(path) ==
  \A i \in 1..Len(RawSegments(path)) :
     LET seg == RawSegments(path)[i]
     IN  \/ (i = Len(RawSegments(path)) /\ seg = <<"i", "n", "d", "e", "x", ".", "m", "d">>)
         \/ (HasOrderingPrefix(seg) /\ ~HasOrderingPrefix(WithoutOrderingPrefix(seg)))

\* C10: no path of a navigation item, built by generateNavigation or by
\* buildNavigationFromContentFiles, has a segment that starts with an
\* ordering prefix or keeps the .md extension.
C10_NoPrefixInPaths ==
  (/\ op \in {"generateNavigation", "buildNavigation"}
   /\ ret.kind = "navigation"
   /\ \A path \in StoredPaths : Conforming(path))
  => \A item \in ItemsOf(ret.items) :
        \A k \in 1..Len(ItemSegments(item)) :
           /\ ~HasOrderingPrefix(ItemSegments(item)[k])
           /\ ~KeepsMd(ItemSegments(item)[k])

\* a section item /a with the leaf /a/x has been built from prefixed names
C10_Witness ==
  /\ op = "generateNavigation"
  /\ ret.kind = "navigation"
  /\ \A path \in StoredPaths : Conforming(path)
  /\ \E item \in ItemsOf(ret.items) : item.path = <<"/", "a", "/", "x">>
  /\ \E item \in ItemsOf(ret.items) : item.path = <<"/", "a">> /\ HasChildren(item)

\* the items hold the item of the segments as a leaf under a chain of
\* nested items, one per leading segment, from the k-th on
RECURSIVE ChainTo(_, _, _)
ChainTo(items, segs, k) ==
  \E i \in 1..Len(items) :
     /\ ItemSegments(items[i]) = SubSeq(segs, 1, k)
     /\ IF k = Len(segs) THEN ~HasChildren(items[i])
        ELSE HasChildren(items[i]) /\ ChainTo(items[i].children, segs, k + 1)

\* C11: a file two or more directories below a top-level section is a leaf
\* under a chain of nested items, one per directory of its stored path, and
\* its path joins the clean names of those directories and of the file.
C11_DeepFileNested ==
  (op = "generateNavigation" /\ KeysSorted /\ ret.kind = "navigation") =>
    \A path \in StoredPaths :
       (AllPrefixed(path) /\ Len(RawSegments(path)) >= 4 /\ ~IsIndexDocument(path))
         => ChainTo(ret.items, CleanAll(path), 1)

\* the index document of a subdirectory of a section, the names of the
\* directories carrying ordering prefixes, named index.md or
\* <prefix>.index.md, with a title
IsTitledSubdirIndex(path) ==
  /\ IsIndexDocument(path)
  /\ Len(RawSegments(path)) >= 3
  /\ \A i \in 1..(Len(RawSegments(path)) - 1) : HasOrderingPrefix(RawSegments(path)[i])
  /\ TitleOf(Raw(contentModules, path)).ty = "string"
  /\ TitleOf(Raw(contentModules, path)).v # <<>>

\* C12: the item of a directory has the front-matter title of the
\* directory's index document, whether the index is named 1.index.md or
\* index.md (stated for the subdirectories; C7 states it for the top-level
\* sections).
C12_TitleFromEitherIndex ==
  (op = "generateNavigation" /\ KeysSorted /\ ret.kind = "navigation") =>
    \A path \in StoredPaths :
       IsTitledSubdirIndex(path) =>
         \A item \in ItemsOf(ret.items) :
            (HasChildren(item) /\ ItemSegments(item) = PublicSegments(path))
              => item.title = TitleOf(Raw(contentModules, path))

\* the index document of a top-level section or of a subdirectory of one,
\* the names of the directories carrying ordering prefixes
IsDirectoryIndex(path) ==
  /\ IsIndexDocument(path)
  /\ Len(RawSegments(path)) \in {2, 3}
  /\ \A i \in 1..(Len(RawSegments(path)) - 1) : HasOrderingPrefix(RawSegments(path)[i])

\* C13: every directory that has an index document has an item in the
\* tree, with a children list, also when the index is its only file.
C13_IndexedDirectoryKept ==
  (op = "generateNavigation" /\ KeysSorted /\ ret.kind = "navigation") =>
    \A path \in StoredPaths :
       IsDirectoryIndex(path) =>
         \E item \in ItemsOf(ret.items) :
            HasChildren(item) /\ ItemSegments(item) = PublicSegments(path)

\* C14: parsing the body returned by parseFrontmatter again yields empty
\* metadata and the same body.
C14_BodyIdempotent ==
  (op = "parseFrontmatter" /\ ret.kind = "parsed") =>
    Parsed(parseFrontmatter(ret.content))
      = [kind |-> "parsed", data |-> EmptyObject, content |-> ret.content]

\* C15: parseFrontmatter and parseYaml never throw, whatever the lines.
C15_ParserNeverThrows ==
  op \in {"parseFrontmatter", "parseYaml"} => ret # Thrown

\* C16: a line whose key is preceded by whitespace is stored under the most
\* recent top-level key: after "navigation:" the line "  icon: X" sets
\* navigation.icon and makes no top-level key icon.
C16_IndentedKeyNested ==
  (/\ op = "parseYaml"
   /\ ret.kind = "yaml"
   /\ Len(arg) >= 2
   /\ arg[Len(arg) - 1] = LineNavigation
   /\ arg[Len(arg)] = LineIcon)
  => /\ Get(Get(ret.data, NavigationKey), IconKey) = StrValue(<<"X">>)
     /\ Get(ret.data, IconKey) = Undefined

\* the string is wrapped in a pair of the quote q
IsQuoted(value, q) == Len(value) >= 2 /\ value[1] = q /\ value[Len(value)] = q

\* digits, possibly none, a decimal point, and at least one digit
IsDecimal(value) ==
  \E k \in 1..(Len(value) - 1) :
     /\ value[k] = "."
     /\ \A i \in 1..Len(value) : i # k => value[i] \in Digits

\* the value the coercion rules of the specification give a trimmed scalar,
\* the first rule that matches deciding
Coerced(value) ==
  IF value = <<"t", "r", "u", "e">> THEN BoolValue(TRUE)
  ELSE IF value = <<"f", "a", "l", "s", "e">> THEN BoolValue(FALSE)
  ELSE IF value = <<"n", "u", "l", "l">> THEN NullValue
  ELSE IF value # <<>> /\ \A i \in 1..Len(value) : value[i] \in Digits
       THEN NumValue(NumberOf(value), 0)
  ELSE IF IsDecimal(value) THEN ParseFloat(value)
  ELSE IF IsQuoted(value, "\"") \/ IsQuoted(value, "'")
       THEN StrValue(SubSeq(value, 2, Len(value) - 1))
  ELSE StrValue(value)

\* C17: parseValue coerces a trimmed scalar by the first rule that matches:
\* true/false, null, integer, float, quoted string, literal string.
C17_CoercionOrder ==
  op = "parseValue" => ret.value = Coerced(arg)

\* the lines consisting solely of --- that can close a block opened by the
\* first line: at least one line lies between
ClosingLines(content) == {j \in 3..Len(content) : content[j] = Dashes}

\* the text begins with a line ---, one or more lines, and a line ---
HasBlock(content) ==
  Len(content) >= 3 /\ content[1] = Dashes /\ ClosingLines(content) # {}

FirstClosing(content) ==
  CHOOSE j \in ClosingLines(content) : \A k \in ClosingLines(content) : j <= k

\* C18: parseFrontmatter extracts a block exactly when the text begins with
\* a line ---, one or more lines and a line ---, also when that line is the
\* last of the text; otherwise it returns empty metadata and the text
\* (stated for the texts whose second line is neither empty nor ---).
C18_BlockDetected ==
  (/\ op = "parseFrontmatter"
   /\ ret.kind = "parsed"
   /\ Len(arg) >= 2 => arg[2] \notin {<<>>, Dashes}) =>
    IF HasBlock(arg)
    THEN /\ ret.content = SubSeq(arg, FirstClosing(arg) + 1, Len(arg))
         /\ ret.data = parseYaml(SubSeq(arg, 2, FirstClosing(arg) - 1)).data
    ELSE ret.data = EmptyObject /\ ret.content = arg

\* C19: no call of findOne, find, parseFrontmatter, generateNavigation or
\* buildNavigation adds, removes or rewrites an entry of the Content Store.
C19_StoreNeverMutated == [][contentModules' = contentModules]_vars

\* find has returned a file of a store of two
C19_Witness ==
  /\ op = "find"
  /\ ret.kind = "list"
  /\ Len(ret.docs) >= 1
  /\ Len(contentModules) = 2

\* the only request there is, made for the current route, for which findOne
\* returns null, runs its .then or .catch
NotFoundSettles ==
  /\ Len(requests) = 1
  /\ requests[1].stage = "running"
  /\ requests[1].key = KeyOf(currentPath)
  /\ requests[1].outcome = NullResult
  /\ asyncPromises = {KeyOf(currentPath)}
  /\ ~canceled
  /\ requests'[1].stage = "settled"

\* C20: when the current route resolves to no document the page has no
\* document to render once the request has settled, also when a document
\* was displayed for the route before.
C20_NotFoundClearsPage ==
  [][NotFoundSettles => (data'.kind # "doc")]_vars

\* the leaves of the tree generateNavigation builds from the modules
LeavesOf(modules) ==
  IF generateNavigation(modules).kind = "navigation"
  THEN {item \in ItemsOf(generateNavigation(modules).items) : ~HasChildren(item)}
  ELSE {}

\* the store without the document
Without(modules, doc) == SelectSeq(modules, LAMBDA m : m # doc)

\* the leaf is produced from the document: the tree has it with the
\* document in the store, and not without
ProducedFrom(item, doc) ==
  /\ item \in LeavesOf(contentModules)
  /\ item \notin LeavesOf(Without(contentModules, doc))

\* C21: for every leaf item that generateNavigation produces from a
\* document d, at any depth, findOne(item.path) returns d.
C21_LeafResolvesToItsDocument ==
  (op = "generateNavigation" /\ KeysSorted) =>
    \A i \in 1..Len(contentModules) :
       \A item \in LeavesOf(contentModules) :
          ProducedFrom(item, contentModules[i])
            => findOne(contentModules, item.path)
                 = [kind |-> "doc", path |-> contentModules[i].path,
                    raw |-> contentModules[i].raw]

\* the number of leaves of a navigation tree, each counted where it stands
RECURSIVE CountLeaves(_)
CountLeaves(items) ==
  IF items = <<>> THEN 0
  ELSE (IF HasChildren(Head(items)) THEN CountLeaves(Head(items).children) ELSE 1)
         + CountLeaves(Tail(items))

\* the number of leaves the document adds to the tree of generateNavigation
LeavesAddedBy(doc) ==
  CountLeaves(generateNavigation(contentModules).items)
    - CountLeaves(generateNavigation(Without(contentModules, doc)).items)

\* C22: every document under a prefixed top-level section that is not a
\* directory's index document is exactly one leaf of the tree of
\* generateNavigation: a file is left out as an index only when its name
\* without ordering prefix and extension is exactly index.
C22_NonIndexIsOneLeaf ==
  (op = "generateNavigation" /\ KeysSorted /\ ret.kind = "navigation") =>
    \A i \in 1..Len(contentModules) :
       (/\ Len(RawSegments(contentModules[i].path)) >= 2
        /\ HasOrderingPrefix(RawSegments(contentModules[i].path)[1])
        /\ ~IsIndexDocument(contentModules[i].path))
       => LeavesAddedBy(contentModules[i]) = 1

\* C27: findByPath returns the document stored at exactly the path asked
\* for, a missing leading slash added, and null, without throwing, when no
\* file is stored at that path.
C27_ExactPathOrNull ==
  op = "findByPath" =>
    ret = IF NormalizedPath(arg) \in StoredPaths
          THEN [kind |-> "doc", path |-> NormalizedPath(arg),
                raw |-> Raw(contentModules, NormalizedPath(arg))]
          ELSE NullResult

\* every request that was started has run its chain to the end and no call
\* is kept back
AllSettled == requests = <<>> /\ ~held

\* what the handler makes of the current route, for which the most
\* recently started request was started once all are settled
LatestOutcome == findOne(contentModules, currentPath)

\* data, error and status hold the outcome
Holds(outcome) ==
  IF outcome.kind = "doc"
  THEN status = "success" /\ data = outcome /\ error = NoError
  ELSE status = "error" /\ error = [kind |-> "error", cause |-> outcome.kind]

\* C23: useAsync always settles. Once every started handler has resolved
\* or rejected and its chain has run, after any sequence of execute and
\* refresh calls, calls made while an earlier request for the same key is
\* pending included, status is not 'pending' but 'success' or 'error', and
\* data or error hold the outcome of the most recently started request
\* (stated for a useAsync that was not cleared since and whose map holds no
\* entry left under another key).
C23_AlwaysSettles ==
  (AllSettled /\ status # "idle" /\ asyncPromises \subseteq {KeyOf(currentPath)})
    => (status # "pending" /\ Holds(LatestOutcome))

\* the .then or .catch of a request started under another key than the
\* current one runs in this step
EarlierSettles ==
  /\ Len(requests') = Len(requests)
  /\ \E i \in 1..Len(requests) :
        /\ requests[i].stage = "running"
        /\ requests'[i].stage = "settled"
        /\ requests[i].key # KeyOf(currentPath)

\* the .finally of a request started under another key than the current
\* one runs in this step, a request of the current key being in flight
EarlierEnds ==
  /\ \E i \in 1..Len(requests) :
        /\ requests[i].stage = "settled"
        /\ requests[i].key # KeyOf(currentPath)
        /\ requests' = SubSeq(requests, 1, i - 1) \o SubSeq(requests, i + 1, Len(requests))
  /\ \E j \in 1..Len(requests) : requests[j].key = KeyOf(currentPath)
  /\ KeyOf(currentPath) \in asyncPromises

\* all requests have settled and data is the document of the current route
LatestShown ==
  (AllSettled /\ status # "idle" /\ LatestOutcome.kind = "doc") => data = LatestOutcome

\* C24: with a key that follows the route, once all requests have settled
\* the data is the result of the request started for the latest key; a
\* request started for an earlier route that settles later does not write
\* data, and its end does not remove the entry of the current route from
\* asyncPromises.
C24_LatestRouteWins ==
  [][/\ LatestShown'
     /\ EarlierSettles => data' = data
     /\ EarlierEnds => KeyOf(currentPath) \in asyncPromises']_vars

\* the .then or .catch of a request runs in this step while a request
\* started later under the same key is in flight
SupersededSettles ==
  /\ Len(requests') = Len(requests)
  /\ \E i \in 1..Len(requests) :
        /\ requests[i].stage = "running"
        /\ requests'[i].stage = "settled"
        /\ \E j \in (i + 1)..Len(requests) : requests[j].key = requests[i].key

\* C25: when a refresh is forced (dedupe 'cancel') while an earlier request
\* for the same key is pending, the result or error of the earlier request
\* never changes data, error or status.
C25_SupersededIgnored ==
  [][SupersededSettles => UNCHANGED <<data, error, status>>]_vars

\* data is the default value, error is undefined and status is 'idle'
Cleared == data = NullResult /\ error = NoError /\ status = "idle"

\* C26: after clear(), data is the default value, error is undefined and
\* status is 'idle', and they stay so until the next execute: a step that
\* starts no request leaves them so, also when it is the settling of a
\* request that was in flight when clear() was called.
C26_ClearedUntilExecute ==
  [][(Cleared /\ Len(requests') <= Len(requests)) => Cleared']_vars

\* the item stands for the index file of a directory: its path is the path
\* of the directory followed by index
IsIndexChild(item) ==
  /\ Len(ItemSegments(item)) >= 2
  /\ ItemSegments(item)[Len(ItemSegments(item))] = <<"i", "n", "d", "e", "x">>

\* C28: buildNavigationFromContentFiles never lists the index file of a
\* directory as a child entry of that directory, whatever order the content
\* files are enumerated in.
C28_IndexNeverAChild ==
  (op = "buildNavigation" /\ ~ret.error) =>
    \A item \in ItemsOf(ret.items) : ~IsIndexChild(item)

\* the raw names of the files of a directory that an item of a sibling
\* list built by buildNavigationFromContentFiles or by generateNavigation
\* stands for: a leaf whose last segment is the clean name of the file
FileNamesOf(parent, item) ==
  {RawSegments(path)[Len(parent) + 1] : path \in
     {p \in StoredPaths :
        /\ Len(RawSegments(p)) = Len(parent) + 1
        /\ CleanAll(p) = Append(parent, ItemSegments(item)[Len(ItemSegments(item))])}}

\* the leaf comes from a file without ordering prefix
Unprefixed(parent, item) ==
  /\ ~HasChildren(item)
  /\ FileNamesOf(parent, item) # {}
  /\ \A raw \in FileNamesOf(parent, item) : ~HasOrderingPrefix(raw)

\* the leaf comes from a file with an ordering prefix
Prefixed(parent, item) ==
  /\ ~HasChildren(item)
  /\ FileNamesOf(parent, item) # {}
  /\ \A raw \in FileNamesOf(parent, item) : HasOrderingPrefix(raw)

\* C29: a file whose name has no numeric prefix is ordered after every
\* numerically prefixed sibling, however large the prefix of the sibling,
\* in buildNavigationFromContentFiles and in generateNavigation.
C29_UnprefixedLast ==
  (op \in {"buildNavigation", "generateNavigation"} /\ ret.kind = "navigation") =>
    \A list \in ListsOf(<<>>, ret.items) :
       \A i, j \in 1..Len(list.items) :
          (Unprefixed(list.parent, list.items[i]) /\ Prefixed(list.parent, list.items[j]))
            => j < i

\* C30: after setActivePath(p) every item of the navigation tree, at every
\* depth, has active = true exactly when its path equals p; the parent of
\* an active item is not thereby active, and after any sequence of calls
\* the flags reflect the last call only.
C30_ActiveIsExactMatch ==
  op = "setActivePath" =>
    \A item \in ItemsOf(navigation) :
       "active" \in DOMAIN item /\ (item.active <=> item.path = arg)

\* a page below a directory is active and the directory is not
C30_Witness ==
  /\ op = "setActivePath"
  /\ \E i \in 1..Len(navigation) :
        /\ HasChildren(navigation[i])
        /\ ~navigation[i].active
        /\ \E k \in 1..Len(navigation[i].children) : navigation[i].children[k].active

====
